---- MODULE Spec2Model ----
(***************************************************************************)
(* n8n -> Sim workflow migration: the type resolver (mappings.ts), the     *)
(* structural validator and the converter (converter.ts), and the          *)
(* migration dialog that calls them (MigrationDialog).                     *)
(*                                                                         *)
(* Strings whose characters the code inspects (node types, block types)    *)
(* are sequences of one-character strings; node names are opaque strings.  *)
(***************************************************************************)
EXTENDS Integers, Sequences, FiniteSets, TLC

VARIABLES
  n8nType,      \* getSimBlockType: the argument
  resolved,     \* getSimBlockType: the returned { simType, defaultHeight }
  data,         \* validateN8NWorkflow: the argument
  validation,   \* validateN8NWorkflow: the outcome (a result, or a raised TypeError)
  n8nWorkflow,  \* convertN8NToSim: the argument
  registry,     \* @/blocks getBlock: block type -> definition
  validTypes,   \* @/blocks isValidBlockType: the block types it accepts
  pc,           \* position of the running call
  uuidCount,    \* number of ids uuidv4() has handed out in this call
  nodeIdMap,    \* convertN8NToSim: Map node name -> block id
  blocks,       \* convertN8NToSim: Record block id -> SimBlock
  edges,        \* convertN8NToSim: SimEdge[]
  warnings,     \* convertN8NToSim: string[]
  thrown,       \* convertN8NToSim: the error on its way to the catch clause
  result,       \* convertN8NToSim: the returned MigrationResult
  clock,        \* the time new Date() reads
  first,        \* the outcome of an earlier call on the same workflow
  open,             \* MigrationDialog: the open prop
  jsonInput,        \* MigrationDialog: useState('')
  isValidating,     \* MigrationDialog: useState(false)
  isMigrating,      \* MigrationDialog: useState(false)
  isValidated,      \* MigrationDialog: useState(false)
  validationResult, \* MigrationDialog: useState<MigrationResult | null>(null)
  validationError,  \* MigrationDialog: useState<string | null>(null)
  reading,          \* contents of the files a FileReader is reading
  delivered         \* the calls of onMigrationComplete made so far

vars == <<n8nType, resolved, data, validation, n8nWorkflow, registry, validTypes,
          pc, uuidCount, nodeIdMap, blocks, edges, warnings, thrown, result,
          clock, first, open, jsonInput, isValidating, isMigrating, isValidated,
          validationResult, validationError, reading, delivered>>

resolverVars == <<n8nType, resolved>>
validatorVars == <<data, validation>>
converterVars == <<n8nWorkflow, registry, validTypes, uuidCount, nodeIdMap,
                   blocks, edges, warnings, thrown, result>>
repeatVars == <<clock, first>>
dialogVars == <<open, jsonInput, isValidating, isMigrating, isValidated,
                validationResult, validationError, reading, delivered>>

----------------------------------------------------------------------------
(* Bounds of the model. *)

\* longest free-form type string fed to getSimBlockType
MaxLen == 3

\* most elements of raw.nodes handed to validateN8NWorkflow
MaxRawNodes == 2

\* largest workflow handed to convertN8NToSim: its nodes plus the fan-out
\* targets (and malformed values) of its connection table
MaxSize == 3

\* most sub-block declarations of a registry definition
MaxDecls == 2

----------------------------------------------------------------------------
(* Characters and strings. *)

UpperCase ==
  <<"A","B","C","D","E","F","G","H","I","J","K","L","M",
    "N","O","P","Q","R","S","T","U","V","W","X","Y","Z">>

LowerCase ==
  <<"a","b","c","d","e","f","g","h","i","j","k","l","m",
    "n","o","p","q","r","s","t","u","v","w","x","y","z">>

\* the character class [A-Z]
IsUpper(c) == \E i \in 1..Len(UpperCase) : UpperCase[i] = c

\* String.prototype.toLowerCase, one character
ToLowerChar(c) ==
  IF IsUpper(c)
    THEN LowerCase[CHOOSE i \in 1..Len(UpperCase) : UpperCase[i] = c]
    ELSE c

\* String.prototype.toLowerCase
ToLowerCase(s) == [i \in 1..Len(s) |-> ToLowerChar(s[i])]

\* the namespace prefix "n8n-nodes-base."
NodesBase == <<"n","8","n","-","n","o","d","e","s","-","b","a","s","e",".">>

Base(s) == NodesBase \o s

\* the block type 'function'
FunctionType == <<"f","u","n","c","t","i","o","n">>

\* the block type 'condition'
ConditionType == <<"c","o","n","d","i","t","i","o","n">>

\* the node type 'n8n-nodes-base.stickyNote'
StickyNoteType == Base(<<"s","t","i","c","k","y","N","o","t","e">>)

----------------------------------------------------------------------------
(* mappings.ts *)

BLOCK_TYPE_MAPPINGS ==
  <<
    [n8nType |-> Base(<<"c","r","o","n">>),
     simType |-> <<"s","c","h","e","d","u","l","e">>, defaultHeight |-> 172],
    [n8nType |-> Base(<<"w","e","b","h","o","o","k">>),
     simType |-> <<"w","e","b","h","o","o","k">>, defaultHeight |-> 172],
    [n8nType |-> Base(<<"m","a","n","u","a","l","T","r","i","g","g","e","r">>),
     simType |-> <<"m","a","n","u","a","l","_","t","r","i","g","g","e","r">>, defaultHeight |-> 143],
    [n8nType |-> Base(<<"s","c","h","e","d","u","l","e","T","r","i","g","g","e","r">>),
     simType |-> <<"s","c","h","e","d","u","l","e">>, defaultHeight |-> 172],
    [n8nType |-> Base(<<"m","y","S","q","l">>),
     simType |-> <<"m","y","s","q","l">>, defaultHeight |-> 230],
    [n8nType |-> Base(<<"p","o","s","t","g","r","e","s">>),
     simType |-> <<"p","o","s","t","g","r","e","s","q","l">>, defaultHeight |-> 230],
    [n8nType |-> Base(<<"m","o","n","g","o","d","b">>),
     simType |-> <<"m","o","n","g","o","d","b">>, defaultHeight |-> 230],
    [n8nType |-> Base(<<"r","e","d","i","s">>),
     simType |-> <<"f","u","n","c","t","i","o","n">>, defaultHeight |-> 230],
    [n8nType |-> Base(<<"g","m","a","i","l">>),
     simType |-> <<"g","m","a","i","l">>, defaultHeight |-> 288],
    [n8nType |-> Base(<<"s","l","a","c","k">>),
     simType |-> <<"s","l","a","c","k">>, defaultHeight |-> 317],
    [n8nType |-> Base(<<"t","e","l","e","g","r","a","m">>),
     simType |-> <<"t","e","l","e","g","r","a","m">>, defaultHeight |-> 259],
    [n8nType |-> Base(<<"d","i","s","c","o","r","d">>),
     simType |-> <<"d","i","s","c","o","r","d">>, defaultHeight |-> 259],
    [n8nType |-> Base(<<"m","i","c","r","o","s","o","f","t","T","e","a","m","s">>),
     simType |-> <<"m","i","c","r","o","s","o","f","t","_","t","e","a","m","s">>, defaultHeight |-> 143],
    [n8nType |-> Base(<<"m","i","c","r","o","s","o","f","t","O","u","t","l","o","o","k">>),
     simType |-> <<"o","u","t","l","o","o","k">>, defaultHeight |-> 201],
    [n8nType |-> Base(<<"g","o","o","g","l","e","S","h","e","e","t","s">>),
     simType |-> <<"g","o","o","g","l","e","_","s","h","e","e","t","s">>, defaultHeight |-> 259],
    [n8nType |-> Base(<<"g","o","o","g","l","e","D","r","i","v","e">>),
     simType |-> <<"g","o","o","g","l","e","_","d","r","i","v","e">>, defaultHeight |-> 259],
    [n8nType |-> Base(<<"d","r","o","p","b","o","x">>),
     simType |-> <<"d","r","o","p","b","o","x">>, defaultHeight |-> 259],
    [n8nType |-> Base(<<"a","i","r","t","a","b","l","e">>),
     simType |-> <<"a","i","r","t","a","b","l","e">>, defaultHeight |-> 259],
    [n8nType |-> Base(<<"i","f">>),
     simType |-> <<"c","o","n","d","i","t","i","o","n">>, defaultHeight |-> 259],
    [n8nType |-> Base(<<"s","w","i","t","c","h">>),
     simType |-> <<"r","o","u","t","e","r">>, defaultHeight |-> 259],
    [n8nType |-> Base(<<"f","u","n","c","t","i","o","n">>),
     simType |-> <<"f","u","n","c","t","i","o","n">>, defaultHeight |-> 143],
    [n8nType |-> Base(<<"c","o","d","e">>),
     simType |-> <<"f","u","n","c","t","i","o","n">>, defaultHeight |-> 143],
    [n8nType |-> Base(<<"h","t","t","p","R","e","q","u","e","s","t">>),
     simType |-> <<"a","p","i">>, defaultHeight |-> 259],
    [n8nType |-> Base(<<"w","e","b","h","o","o","k">>),
     simType |-> <<"w","e","b","h","o","o","k">>, defaultHeight |-> 172],
    [n8nType |-> Base(<<"s","t","r","i","p","e">>),
     simType |-> <<"s","t","r","i","p","e">>, defaultHeight |-> 143],
    [n8nType |-> Base(<<"w","a","i","t">>),
     simType |-> <<"w","a","i","t">>, defaultHeight |-> 143],
    [n8nType |-> Base(<<"s","e","t">>),
     simType |-> <<"f","u","n","c","t","i","o","n">>, defaultHeight |-> 143],
    [n8nType |-> Base(<<"m","e","r","g","e">>),
     simType |-> <<"f","u","n","c","t","i","o","n">>, defaultHeight |-> 143]
  >>

\* BLOCK_TYPE_MAPPINGS.find((m) => m.n8nType === n8nType) from entry i on:
\* index of the first matching entry, 0 when there is none
RECURSIVE FindMappingFrom(_, _)
FindMappingFrom(t, i) ==
  IF i > Len(BLOCK_TYPE_MAPPINGS) THEN 0
  ELSE IF BLOCK_TYPE_MAPPINGS[i].n8nType = t THEN i
  ELSE FindMappingFrom(t, i + 1)

FindMapping(t) == FindMappingFrom(t, 1)

\* n8nType.split('.').length > 1
HasDot(s) == \E i \in 1..Len(s) : s[i] = "."

\* parts[parts.length - 1] of s.split('.'): what follows the last '.'
LastPart(s) ==
  IF HasDot(s)
    THEN LET k == CHOOSE i \in 1..Len(s) :
                    s[i] = "." /\ \A j \in (i + 1)..Len(s) : s[j] # "."
         IN  SubSeq(s, k + 1, Len(s))
    ELSE s

\* baseType.replace(/([A-Z])/g, '_$1'): an underscore before EVERY capital
RECURSIVE ReplaceCapitals(_)
ReplaceCapitals(s) ==
  IF s = <<>> THEN <<>>
  ELSE (IF IsUpper(Head(s)) THEN <<"_", Head(s)>> ELSE <<Head(s)>>)
         \o ReplaceCapitals(Tail(s))

SnakeCase(baseType) == ToLowerCase(ReplaceCapitals(baseType))

\* getSimBlockType with the height of the heuristic step in the final fallback
getSimBlockType_FallbackHeight(t) ==
  LET m == FindMapping(t) IN
  IF m # 0
    THEN [simType |-> BLOCK_TYPE_MAPPINGS[m].simType,
          defaultHeight |-> BLOCK_TYPE_MAPPINGS[m].defaultHeight]
  ELSE IF HasDot(t)
    THEN [simType |-> SnakeCase(LastPart(t)), defaultHeight |-> 230]
  ELSE [simType |-> FunctionType, defaultHeight |-> 230]

getSimBlockType(t) ==
  LET m == FindMapping(t) IN
  IF m # 0
    THEN [simType |-> BLOCK_TYPE_MAPPINGS[m].simType,
          defaultHeight |-> BLOCK_TYPE_MAPPINGS[m].defaultHeight]
  ELSE IF HasDot(t)
    THEN [simType |-> SnakeCase(LastPart(t)), defaultHeight |-> 230]
  ELSE [simType |-> FunctionType, defaultHeight |-> 143]

----------------------------------------------------------------------------
(* JavaScript values, as far as the code tells them apart. *)

Undefined == [kind |-> "undefined"]
Null == [kind |-> "null"]
\* a non-zero number
Num == [kind |-> "number"]
\* a string, with its length property
StrOfLength(s, n) == [kind |-> "string", value |-> s, length |-> n]
\* a short string
Str(s) == StrOfLength(s, IF s = "" THEN 0 ELSE 1)
Arr(items) == [kind |-> "array", items |-> items]

\* !v is false
Truthy(v) ==
  /\ v.kind \notin {"undefined", "null"}
  /\ ~(v.kind = "string" /\ v.value = "")

\* typeof v === 'object'
TypeofObject(v) == v.kind \in {"null", "object", "array"}

\* typeof v === 'string'
TypeofString(v) == v.kind = "string"

\* Array.isArray(v)
IsArray(v) == v.kind = "array"

\* reading a property of null or undefined raises a TypeError
ReadThrows(v) == v.kind \in {"undefined", "null"}

\* v[f], for v neither null nor undefined
Read(v, f) ==
  IF v.kind = "object" /\ f \in DOMAIN v THEN v[f] ELSE Undefined

----------------------------------------------------------------------------
(* converter.ts: validateN8NWorkflow *)

Invalid(message) == [kind |-> "return", valid |-> FALSE, error |-> message]
Valid == [kind |-> "return", valid |-> TRUE, error |-> <<>>]
TypeErrorRaised == [kind |-> "throw", valid |-> FALSE, error |-> <<"TypeError">>]

\* the template `${node.name}` inside an error message
NameText(v) == IF v.kind = "string" THEN v.value ELSE v.kind

\* for (const node of data.nodes) { ... } from element i on
RECURSIVE ValidateNodes(_, _)
ValidateNodes(nodes, i) ==
  IF i > Len(nodes) THEN Valid
  ELSE LET node == nodes[i] IN
    IF ReadThrows(node) THEN TypeErrorRaised
    ELSE IF ~Truthy(Read(node, "name")) \/ ~TypeofString(Read(node, "name"))
      THEN Invalid(<<"Invalid node: missing or invalid \"name\" field">>)
    ELSE IF ~Truthy(Read(node, "type")) \/ ~TypeofString(Read(node, "type"))
      THEN Invalid(<<"Invalid node \"", NameText(Read(node, "name")),
                     "\": missing or invalid \"type\" field">>)
    ELSE IF \/ ~Truthy(Read(node, "position"))
            \/ ~IsArray(Read(node, "position"))
            \/ Len(Read(node, "position").items) # 2
      THEN Invalid(<<"Invalid node \"", NameText(Read(node, "name")),
                     "\": missing or invalid \"position\" field">>)
    ELSE ValidateNodes(nodes, i + 1)

validateN8NWorkflow(d) ==
  IF ~Truthy(d) \/ ~TypeofObject(d)
    THEN Invalid(<<"Invalid workflow data: must be an object">>)
  ELSE IF ~Truthy(Read(d, "nodes")) \/ ~IsArray(Read(d, "nodes"))
    THEN Invalid(<<"Invalid workflow: missing or invalid \"nodes\" array">>)
  ELSE IF Len(Read(d, "nodes").items) = 0
    THEN Invalid(<<"Invalid workflow: must contain at least one node">>)
  ELSE IF ~Truthy(Read(d, "connections")) \/ ~TypeofObject(Read(d, "connections"))
    THEN Invalid(<<"Invalid workflow: missing or invalid \"connections\" object">>)
  ELSE ValidateNodes(Read(d, "nodes").items, 1)

----------------------------------------------------------------------------
(* mappings.ts: isTriggerNode, DEFAULT_LAYOUT *)

triggerTypes ==
  { Base(<<"c","r","o","n">>),
    Base(<<"w","e","b","h","o","o","k">>),
    Base(<<"m","a","n","u","a","l","T","r","i","g","g","e","r">>),
    Base(<<"s","c","h","e","d","u","l","e","T","r","i","g","g","e","r">>),
    Base(<<"s","t","r","i","p","e">>),
    Base(<<"t","e","l","e","g","r","a","m","T","r","i","g","g","e","r">>),
    Base(<<"s","l","a","c","k","T","r","i","g","g","e","r">>),
    Base(<<"g","i","t","h","u","b","T","r","i","g","g","e","r">>) }

\* s.endsWith(suffix)
EndsWith(s, suffix) ==
  /\ Len(s) >= Len(suffix)
  /\ SubSeq(s, Len(s) - Len(suffix) + 1, Len(s)) = suffix

isTriggerNode(node, isFirstNode) ==
  IF node.type \in triggerTypes THEN TRUE
  ELSE IF EndsWith(node.type, <<"T","r","i","g","g","e","r">>) THEN TRUE
  ELSE isFirstNode

DEFAULT_LAYOUT == [measuredWidth |-> 250, measuredHeight |-> 172]

----------------------------------------------------------------------------
(* @/blocks: the Block Registry and the Type Existence Check *)

\* a registry lookup that raises instead of answering
LookupFails == [kind |-> "throws"]

\* getBlock(type): the definition, undefined for an unregistered type
getBlock(reg, type) == IF type \in DOMAIN reg THEN reg[type] ELSE Undefined

\* isValidBlockType(type)
isValidBlockType(valid, type) == type \in valid

----------------------------------------------------------------------------
(* converter.ts: convertParametersToSubBlocks *)

EmptyMap == [k \in {} |-> Null]

\* map[key] = value
Put(map, key, value) ==
  [k \in DOMAIN map \cup {key} |-> IF k = key THEN value ELSE map[k]]

\* a || b
Or(a, b) == IF Truthy(a) THEN a ELSE b

\* JSON.stringify(v)
Stringify(v) == [kind |-> "string", value |-> "json", length |-> 2, of |-> v]

\* the own keys of a parameter bag
Keys(bag) == DOMAIN bag \ {"kind"}

\* the value one declared slot receives: [thrown, value]
SubBlockValue(subBlockDef, parameters, simType) ==
  LET subBlockId == subBlockDef.id
      P(key) == Read(parameters, key)
      Got(v) == [thrown |-> FALSE, value |-> v]
  IN
  IF P(subBlockId) # Undefined THEN Got(P(subBlockId))
  ELSE IF subBlockId = "code"
    THEN Got(Or(P("jsCode"), Or(P("functionCode"), Or(P("code"), Or(P("script"), Null)))))
  ELSE IF subBlockId = "message" /\ (Truthy(P("text")) \/ Truthy(P("body")))
    THEN Got(Or(P("text"), Or(P("body"), P("message"))))
  ELSE IF subBlockId = "to" /\ Truthy(P("sendTo"))
    THEN Got(P("sendTo"))
  ELSE IF subBlockId = "language" /\ simType = FunctionType
    THEN Got(Str("javascript"))
  ELSE IF subBlockId = "condition" /\ Truthy(P("conditions"))
    THEN Got(Stringify(P("conditions")))
  ELSE IF subBlockDef.value.kind = "function"
    THEN IF subBlockDef.value.throws
           THEN [thrown |-> TRUE, value |-> Null]
           ELSE Got(subBlockDef.value.returns)
  ELSE IF subBlockDef.value # Undefined THEN Got(subBlockDef.value)
  ELSE Got(Null)

\* DeclaredSubBlocks leaving out the slots for which no value was found
RECURSIVE DeclaredSubBlocks_OmitsNull(_, _, _, _, _)
DeclaredSubBlocks_OmitsNull(defs, i, node, simType, subBlocks) ==
  IF i > Len(defs) THEN [thrown |-> FALSE, subBlocks |-> subBlocks]
  ELSE IF ReadThrows(node.parameters) THEN [thrown |-> TRUE, subBlocks |-> subBlocks]
  ELSE LET r == SubBlockValue(defs[i], node.parameters, simType) IN
    IF r.thrown THEN [thrown |-> TRUE, subBlocks |-> subBlocks]
    ELSE DeclaredSubBlocks_OmitsNull(defs, i + 1, node, simType,
           IF r.value = Null THEN subBlocks
           ELSE Put(subBlocks, defs[i].id,
                    [id |-> defs[i].id, type |-> defs[i].type, value |-> r.value]))

\* for (const subBlockDef of blockDef.subBlocks) { ... } from declaration i on
RECURSIVE DeclaredSubBlocks(_, _, _, _, _)
DeclaredSubBlocks(defs, i, node, simType, subBlocks) ==
  IF i > Len(defs) THEN [thrown |-> FALSE, subBlocks |-> subBlocks]
  ELSE IF ReadThrows(node.parameters) THEN [thrown |-> TRUE, subBlocks |-> subBlocks]
  ELSE LET r == SubBlockValue(defs[i], node.parameters, simType) IN
    IF r.thrown THEN [thrown |-> TRUE, subBlocks |-> subBlocks]
    ELSE DeclaredSubBlocks(defs, i + 1, node, simType,
           Put(subBlocks, defs[i].id,
               [id |-> defs[i].id, type |-> defs[i].type, value |-> r.value]))

\* Object.entries(node.parameters).forEach(...)
GenericSubBlocks(parameters) ==
  [key \in Keys(parameters) |->
     [id |-> key,
      type |-> IF TypeofString(parameters[key]) /\ parameters[key].length > 100
                 THEN "long-input" ELSE "short-input",
      value |-> parameters[key]]]

convertParametersToSubBlocks(reg, node, simType) ==
  LET blockDef == getBlock(reg, simType) IN
  IF blockDef = LookupFails THEN [thrown |-> TRUE, subBlocks |-> EmptyMap]
  ELSE IF blockDef # Undefined /\ Truthy(Read(blockDef, "subBlocks"))
    THEN DeclaredSubBlocks(blockDef.subBlocks.items, 1, node, simType, EmptyMap)
  ELSE IF ReadThrows(node.parameters) THEN [thrown |-> TRUE, subBlocks |-> EmptyMap]
  ELSE [thrown |-> FALSE, subBlocks |-> GenericSubBlocks(node.parameters)]

----------------------------------------------------------------------------
(* converter.ts: generateOutputsForBlockType *)

\* `${key} output`
KeyOutput(key) == <<key, " output">>

generateOutputsForBlockType(reg, blockType) ==
  LET blockDef == getBlock(reg, blockType) IN
  IF blockDef = LookupFails THEN [thrown |-> TRUE, outputs |-> EmptyMap]
  ELSE IF blockDef # Undefined /\ Truthy(Read(blockDef, "outputs"))
    THEN [thrown |-> FALSE,
          outputs |->
            [key \in Keys(blockDef.outputs) |->
               LET outputDef == blockDef.outputs[key] IN
               IF TypeofString(outputDef)
                 THEN [type |-> outputDef.value, description |-> KeyOutput(key)]
                 ELSE [type |-> outputDef.type,
                       description |-> IF outputDef.description # ""
                                         THEN <<outputDef.description>>
                                         ELSE KeyOutput(key)]]]
  ELSE [thrown |-> FALSE,
        outputs |-> [key \in {"result"} |->
                       [type |-> "any",
                        description |-> <<"Output from block execution">>]]]

----------------------------------------------------------------------------
(* converter.ts: convertN8NToSim *)

NoError == [kind |-> "none", message |-> ""]
\* an Error instance raised by the runtime or by a collaborator
ErrorRaised(message) == [kind |-> "error", message |-> message]

Warning(kind, name, simType, nodeType) ==
  [kind |-> kind, name |-> name, simType |-> simType, n8nType |-> nodeType]

\* `Block type "${simType}" not available in Sim. Node "${node.name}"
\*  (${node.type}) converted to function block.`
UnavailableWarning(simType, node) ==
  Warning("Block type not available in Sim", node.name, simType, node.type)

\* `Source node "${sourceName}" not found in node map`
SourceWarning(sourceName) == Warning("Source node not found in node map", sourceName, <<>>, <<>>)

\* `Target node "${connection.node}" not found in node map`
TargetWarning(name) == Warning("Target node not found in node map", name, <<>>, <<>>)

\* ConvertNode keeping the resolved height under the substituted type
ConvertNode_KeepsHeight(reg, valid, node, index, st) ==
  IF node.type = StickyNoteType THEN st
  ELSE
    LET blockId == st.uuidCount + 1
        mapped == Put(st.nodeIdMap, node.name, blockId)
        r == getSimBlockType(node.type)
        ok == isValidBlockType(valid, r.simType)
        warned == IF ok THEN st.warnings
                  ELSE Append(st.warnings, UnavailableWarning(r.simType, node))
        simType == IF ok THEN r.simType ELSE FunctionType
        defaultHeight == r.defaultHeight
        triggerMode == isTriggerNode(node, index = 0)
        sub == convertParametersToSubBlocks(reg, node, simType)
        out == generateOutputsForBlockType(reg, simType)
        started == [st EXCEPT !.uuidCount = blockId, !.nodeIdMap = mapped,
                              !.warnings = warned]
    IN
    IF sub.thrown \/ out.thrown
      THEN [started EXCEPT !.thrown = ErrorRaised("TypeError")]
      ELSE [started EXCEPT !.blocks =
              Put(st.blocks, blockId,
                  [id |-> blockId,
                   type |-> simType,
                   name |-> node.name,
                   position |-> [x |-> node.position[1], y |-> node.position[2]],
                   enabled |-> TRUE,
                   horizontalHandles |-> TRUE,
                   advancedMode |-> FALSE,
                   triggerMode |-> triggerMode,
                   height |-> defaultHeight,
                   subBlocks |-> sub.subBlocks,
                   outputs |-> out.outputs,
                   data |-> EmptyMap,
                   layout |-> [measuredWidth |-> DEFAULT_LAYOUT.measuredWidth,
                               measuredHeight |-> defaultHeight]])]

\* ConvertNode giving a node whose name is already mapped the id of that name
ConvertNode_ReusesId(reg, valid, node, index, st) ==
  IF node.type = StickyNoteType THEN st
  ELSE
    LET blockId == IF node.name \in DOMAIN st.nodeIdMap
                     THEN st.nodeIdMap[node.name] ELSE st.uuidCount + 1
        mapped == Put(st.nodeIdMap, node.name, blockId)
        r == getSimBlockType(node.type)
        ok == isValidBlockType(valid, r.simType)
        warned == IF ok THEN st.warnings
                  ELSE Append(st.warnings, UnavailableWarning(r.simType, node))
        simType == IF ok THEN r.simType ELSE FunctionType
        defaultHeight == IF ok THEN r.defaultHeight ELSE 143
        triggerMode == isTriggerNode(node, index = 0)
        sub == convertParametersToSubBlocks(reg, node, simType)
        out == generateOutputsForBlockType(reg, simType)
        started == [st EXCEPT !.uuidCount = IF blockId > @ THEN blockId ELSE @, !.nodeIdMap = mapped,
                              !.warnings = warned]
    IN
    IF sub.thrown \/ out.thrown
      THEN [started EXCEPT !.thrown = ErrorRaised("TypeError")]
      ELSE [started EXCEPT !.blocks =
              Put(st.blocks, blockId,
                  [id |-> blockId,
                   type |-> simType,
                   name |-> node.name,
                   position |-> [x |-> node.position[1], y |-> node.position[2]],
                   enabled |-> TRUE,
                   horizontalHandles |-> TRUE,
                   advancedMode |-> FALSE,
                   triggerMode |-> triggerMode,
                   height |-> defaultHeight,
                   subBlocks |-> sub.subBlocks,
                   outputs |-> out.outputs,
                   data |-> EmptyMap,
                   layout |-> [measuredWidth |-> DEFAULT_LAYOUT.measuredWidth,
                               measuredHeight |-> defaultHeight]])]

\* ConvertNode taking the first node that becomes a block for the first node
ConvertNode_FirstBlock(reg, valid, node, index, st) ==
  IF node.type = StickyNoteType THEN st
  ELSE
    LET blockId == st.uuidCount + 1
        mapped == Put(st.nodeIdMap, node.name, blockId)
        r == getSimBlockType(node.type)
        ok == isValidBlockType(valid, r.simType)
        warned == IF ok THEN st.warnings
                  ELSE Append(st.warnings, UnavailableWarning(r.simType, node))
        simType == IF ok THEN r.simType ELSE FunctionType
        defaultHeight == IF ok THEN r.defaultHeight ELSE 143
        triggerMode == isTriggerNode(node, st.blocks = EmptyMap)
        sub == convertParametersToSubBlocks(reg, node, simType)
        out == generateOutputsForBlockType(reg, simType)
        started == [st EXCEPT !.uuidCount = blockId, !.nodeIdMap = mapped,
                              !.warnings = warned]
    IN
    IF sub.thrown \/ out.thrown
      THEN [started EXCEPT !.thrown = ErrorRaised("TypeError")]
      ELSE [started EXCEPT !.blocks =
              Put(st.blocks, blockId,
                  [id |-> blockId,
                   type |-> simType,
                   name |-> node.name,
                   position |-> [x |-> node.position[1], y |-> node.position[2]],
                   enabled |-> TRUE,
                   horizontalHandles |-> TRUE,
                   advancedMode |-> FALSE,
                   triggerMode |-> triggerMode,
                   height |-> defaultHeight,
                   subBlocks |-> sub.subBlocks,
                   outputs |-> out.outputs,
                   data |-> EmptyMap,
                   layout |-> [measuredWidth |-> DEFAULT_LAYOUT.measuredWidth,
                               measuredHeight |-> defaultHeight]])]

\* one iteration of n8nWorkflow.nodes.forEach((node, index) => { ... });
\* st holds uuidCount, nodeIdMap, blocks, warnings and thrown
ConvertNode(reg, valid, node, index, st) ==
  IF node.type = StickyNoteType THEN st
  ELSE
    LET blockId == st.uuidCount + 1
        mapped == Put(st.nodeIdMap, node.name, blockId)
        r == getSimBlockType(node.type)
        ok == isValidBlockType(valid, r.simType)
        warned == IF ok THEN st.warnings
                  ELSE Append(st.warnings, UnavailableWarning(r.simType, node))
        simType == IF ok THEN r.simType ELSE FunctionType
        defaultHeight == IF ok THEN r.defaultHeight ELSE 143
        triggerMode == isTriggerNode(node, index = 0)
        sub == convertParametersToSubBlocks(reg, node, simType)
        out == generateOutputsForBlockType(reg, simType)
        started == [st EXCEPT !.uuidCount = blockId, !.nodeIdMap = mapped,
                              !.warnings = warned]
    IN
    IF sub.thrown \/ out.thrown
      THEN [started EXCEPT !.thrown = ErrorRaised("TypeError")]
      ELSE [started EXCEPT !.blocks =
              Put(st.blocks, blockId,
                  [id |-> blockId,
                   type |-> simType,
                   name |-> node.name,
                   position |-> [x |-> node.position[1], y |-> node.position[2]],
                   enabled |-> TRUE,
                   horizontalHandles |-> TRUE,
                   advancedMode |-> FALSE,
                   triggerMode |-> triggerMode,
                   height |-> defaultHeight,
                   subBlocks |-> sub.subBlocks,
                   outputs |-> out.outputs,
                   data |-> EmptyMap,
                   layout |-> [measuredWidth |-> DEFAULT_LAYOUT.measuredWidth,
                               measuredHeight |-> defaultHeight]])]

\* n8nWorkflow.nodes.forEach(...) from the node at (1-based) position i on
RECURSIVE ConvertNodesFrom(_, _, _, _, _)
ConvertNodesFrom(reg, valid, nodes, i, st) ==
  IF i > Len(nodes) \/ st.thrown # NoError THEN st
  ELSE ConvertNodesFrom(reg, valid, nodes, i + 1,
                        ConvertNode(reg, valid, nodes[i], i - 1, st))

\* ConvertConnection without the return after the warning: the edge is pushed
\* with an undefined target
ConvertConnection_NoReturn(idMap, blks, sourceId, outputIndex, connection, st) ==
  IF ReadThrows(connection) THEN [st EXCEPT !.thrown = ErrorRaised("TypeError")]
  ELSE IF connection.node \notin DOMAIN idMap
    THEN [st EXCEPT !.warnings = Append(@, TargetWarning(connection.node)),
                    !.uuidCount = @ + 1,
                    !.edges = Append(@, [id |-> st.uuidCount + 1,
                                         source |-> sourceId,
                                         target |-> 0,
                                         sourceHandle |-> "source",
                                         targetHandle |-> "target",
                                         type |-> "default",
                                         data |-> EmptyMap])]
  ELSE
    LET targetId == idMap[connection.node]
        sourceBlock == blks[sourceId]
        sourceHandle ==
          IF sourceBlock.type = ConditionType
            THEN IF outputIndex = 0 THEN "condition-cond-true"
                                    ELSE "condition-cond-else"
            ELSE "source"
        edgeId == st.uuidCount + 1
    IN [st EXCEPT !.uuidCount = edgeId,
                  !.edges = Append(@, [id |-> edgeId,
                                       source |-> sourceId,
                                       target |-> targetId,
                                       sourceHandle |-> sourceHandle,
                                       targetHandle |-> "target",
                                       type |-> "default",
                                       data |-> EmptyMap])]

\* ConvertConnection choosing the handle by branch index for every block type
ConvertConnection_IgnoresType(idMap, blks, sourceId, outputIndex, connection, st) ==
  IF ReadThrows(connection) THEN [st EXCEPT !.thrown = ErrorRaised("TypeError")]
  ELSE IF connection.node \notin DOMAIN idMap
    THEN [st EXCEPT !.warnings = Append(@, TargetWarning(connection.node))]
  ELSE
    LET targetId == idMap[connection.node]
        sourceBlock == blks[sourceId]
        sourceHandle ==
          IF outputIndex = 0 THEN "condition-cond-true"
                             ELSE "condition-cond-else"
        edgeId == st.uuidCount + 1
    IN [st EXCEPT !.uuidCount = edgeId,
                  !.edges = Append(@, [id |-> edgeId,
                                       source |-> sourceId,
                                       target |-> targetId,
                                       sourceHandle |-> sourceHandle,
                                       targetHandle |-> "target",
                                       type |-> "default",
                                       data |-> EmptyMap])]

\* one iteration of connectionGroup.forEach((connection) => { ... });
\* st holds uuidCount, edges, warnings and thrown
ConvertConnection(idMap, blks, sourceId, outputIndex, connection, st) ==
  IF ReadThrows(connection) THEN [st EXCEPT !.thrown = ErrorRaised("TypeError")]
  ELSE IF connection.node \notin DOMAIN idMap
    THEN [st EXCEPT !.warnings = Append(@, TargetWarning(connection.node))]
  ELSE
    LET targetId == idMap[connection.node]
        sourceBlock == blks[sourceId]
        sourceHandle ==
          IF sourceBlock.type = ConditionType
            THEN IF outputIndex = 0 THEN "condition-cond-true"
                                    ELSE "condition-cond-else"
            ELSE "source"
        edgeId == st.uuidCount + 1
    IN [st EXCEPT !.uuidCount = edgeId,
                  !.edges = Append(@, [id |-> edgeId,
                                       source |-> sourceId,
                                       target |-> targetId,
                                       sourceHandle |-> sourceHandle,
                                       targetHandle |-> "target",
                                       type |-> "default",
                                       data |-> EmptyMap])]

\* connectionGroup.forEach(...) from entry k on
RECURSIVE ConvertGroupFrom(_, _, _, _, _, _, _)
ConvertGroupFrom(idMap, blks, sourceId, outputIndex, group, k, st) ==
  IF k > Len(group) \/ st.thrown # NoError THEN st
  ELSE ConvertGroupFrom(idMap, blks, sourceId, outputIndex, group, k + 1,
         ConvertConnection(idMap, blks, sourceId, outputIndex, group[k], st))

\* mainConnections.forEach((connectionGroup, outputIndex) => { ... }) from
\* the group at (1-based) position g on
RECURSIVE ConvertMainFrom(_, _, _, _, _, _)
ConvertMainFrom(idMap, blks, sourceId, main, g, st) ==
  IF g > Len(main) \/ st.thrown # NoError THEN st
  ELSE IF ~IsArray(main[g]) THEN [st EXCEPT !.thrown = ErrorRaised("TypeError")]
  ELSE ConvertMainFrom(idMap, blks, sourceId, main, g + 1,
         ConvertGroupFrom(idMap, blks, sourceId, g - 1, main[g].items, 1, st))

\* ConvertSource skipping an unresolved source without a warning
ConvertSource_SilentSkip(idMap, blks, entry, st) ==
  IF entry.sourceName \notin DOMAIN idMap
    THEN st
  ELSE IF ReadThrows(entry.connectionData)
    THEN [st EXCEPT !.thrown = ErrorRaised("TypeError")]
  ELSE
    LET main == Read(entry.connectionData, "main") IN
    IF ~Truthy(main) THEN st
    ELSE IF ~IsArray(main) THEN [st EXCEPT !.thrown = ErrorRaised("TypeError")]
    ELSE ConvertMainFrom(idMap, blks, idMap[entry.sourceName], main.items, 1, st)

\* one iteration of for (const [sourceName, connectionData] of Object.entries(...))
ConvertSource(idMap, blks, entry, st) ==
  IF entry.sourceName \notin DOMAIN idMap
    THEN [st EXCEPT !.warnings = Append(@, SourceWarning(entry.sourceName))]
  ELSE IF ReadThrows(entry.connectionData)
    THEN [st EXCEPT !.thrown = ErrorRaised("TypeError")]
  ELSE
    LET main == Read(entry.connectionData, "main") IN
    IF ~Truthy(main) THEN st
    ELSE IF ~IsArray(main) THEN [st EXCEPT !.thrown = ErrorRaised("TypeError")]
    ELSE ConvertMainFrom(idMap, blks, idMap[entry.sourceName], main.items, 1, st)

\* the for-of loop over Object.entries(n8nWorkflow.connections) from entry c on
RECURSIVE ConvertConnectionsFrom(_, _, _, _, _)
ConvertConnectionsFrom(idMap, blks, connections, c, st) ==
  IF c > Len(connections) \/ st.thrown # NoError THEN st
  ELSE ConvertConnectionsFrom(idMap, blks, connections, c + 1,
         ConvertSource(idMap, blks, connections[c], st))

NoResult == [kind |-> "pending"]
\* no earlier call
NoRun == [kind |-> "none"]

\* return { success: true, workflow: simWorkflow, warnings: ... }
SuccessResult(workflow, blks, edgs, warns, now) ==
  [kind |-> "result",
   success |-> TRUE,
   workflow |->
     [kind |-> "object",
      version |-> "1.0",
      exportedAt |-> now,
      state |-> [blocks |-> blks,
                 edges |-> edgs,
                 loops |-> EmptyMap,
                 parallels |-> EmptyMap,
                 metadata |->
                   [name |-> Or(workflow.name, Str("Migrated from n8n")),
                    description |->
                      "Workflow migrated from n8n automation platform",
                    exportedAt |-> now],
                 variables |-> <<>>]],
   warnings |-> IF Len(warns) > 0 THEN Arr(warns) ELSE Undefined,
   error |-> Undefined]

\* return { success: false, error: ... }
FailureResult(error) ==
  [kind |-> "result",
   success |-> FALSE,
   workflow |-> Undefined,
   warnings |-> Undefined,
   error |-> IF error.kind = "error" THEN Str(error.message)
             ELSE Str("Unknown error during migration")]

\* Step 3 or the catch clause, after Step 2 left s2
ReturnAfterConnections(workflow, s1, s2, now) ==
  IF s2.thrown # NoError THEN FailureResult(s2.thrown)
  ELSE SuccessResult(workflow, s1.blocks, s2.edges, s2.warnings, now)

\* Step 2 and Step 3 or the catch clause, after Step 1 left s1
ReturnAfterNodes(workflow, s1, now) ==
  IF s1.thrown # NoError THEN FailureResult(s1.thrown)
  ELSE ReturnAfterConnections(workflow, s1,
         ConvertConnectionsFrom(s1.nodeIdMap, s1.blocks, workflow.connections, 1,
           [uuidCount |-> s1.uuidCount, edges |-> <<>>,
            warnings |-> s1.warnings, thrown |-> NoError]),
         now)

\* the call as a whole: Step 1, Step 2, Step 3 inside try/catch, with uuidv4()
\* having handed out count ids before and new Date() reading now
convertN8NToSim(workflow, reg, valid, count, now) ==
  ReturnAfterNodes(workflow,
    ConvertNodesFrom(reg, valid, workflow.nodes, 1,
      [uuidCount |-> count, nodeIdMap |-> EmptyMap, blocks |-> EmptyMap,
       warnings |-> <<>>, thrown |-> NoError]),
    now)

\* Step 1: convert nodes to blocks
ConvertNodes ==
  /\ pc = "nodes"
  /\ LET st == ConvertNodesFrom(registry, validTypes, n8nWorkflow.nodes, 1,
                 [uuidCount |-> uuidCount, nodeIdMap |-> nodeIdMap,
                  blocks |-> blocks, warnings |-> warnings, thrown |-> NoError])
     IN /\ uuidCount' = st.uuidCount
        /\ nodeIdMap' = st.nodeIdMap
        /\ blocks' = st.blocks
        /\ warnings' = st.warnings
        /\ thrown' = st.thrown
        /\ pc' = IF st.thrown = NoError THEN "connections" ELSE "catch"
  /\ UNCHANGED <<n8nWorkflow, registry, validTypes, edges, result>>
  /\ UNCHANGED <<resolverVars, validatorVars, repeatVars, dialogVars>>

\* Step 2: convert connections to edges
ConvertConnections ==
  /\ pc = "connections"
  /\ LET st == ConvertConnectionsFrom(nodeIdMap, blocks, n8nWorkflow.connections, 1,
                 [uuidCount |-> uuidCount, edges |-> edges,
                  warnings |-> warnings, thrown |-> NoError])
     IN /\ uuidCount' = st.uuidCount
        /\ edges' = st.edges
        /\ warnings' = st.warnings
        /\ thrown' = st.thrown
        /\ pc' = IF st.thrown = NoError THEN "build" ELSE "catch"
  /\ UNCHANGED <<n8nWorkflow, registry, validTypes, nodeIdMap, blocks, result>>
  /\ UNCHANGED <<resolverVars, validatorVars, repeatVars, dialogVars>>

\* BuildWorkflow returning the warning list even when it is empty
BuildWorkflow_AlwaysWarnings ==
  /\ pc = "build"
  /\ result' =
       [kind |-> "result",
        success |-> TRUE,
        workflow |->
          [kind |-> "object",
           version |-> "1.0",
           exportedAt |-> clock,
           state |-> [blocks |-> blocks,
                      edges |-> edges,
                      loops |-> EmptyMap,
                      parallels |-> EmptyMap,
                      metadata |->
                        [name |-> Or(n8nWorkflow.name, Str("Migrated from n8n")),
                         description |->
                           "Workflow migrated from n8n automation platform",
                         exportedAt |-> clock],
                      variables |-> <<>>]],
        warnings |-> Arr(warnings),
        error |-> Undefined]
  /\ pc' = "returned"
  /\ UNCHANGED <<n8nWorkflow, registry, validTypes, uuidCount, nodeIdMap, blocks,
                 edges, warnings, thrown>>
  /\ UNCHANGED <<resolverVars, validatorVars, repeatVars, dialogVars>>

\* Step 3: build the Sim workflow structure and return it
BuildWorkflow ==
  /\ pc = "build"
  /\ result' = SuccessResult(n8nWorkflow, blocks, edges, warnings, clock)
  /\ pc' = "returned"
  /\ UNCHANGED <<n8nWorkflow, registry, validTypes, uuidCount, nodeIdMap, blocks,
                 edges, warnings, thrown>>
  /\ UNCHANGED <<resolverVars, validatorVars, repeatVars, dialogVars>>

\* catch (error) { return { success: false, error: ... } }
CatchError ==
  /\ pc = "catch"
  /\ result' = FailureResult(thrown)
  /\ pc' = "returned"
  /\ UNCHANGED <<n8nWorkflow, registry, validTypes, uuidCount, nodeIdMap, blocks,
                 edges, warnings, thrown>>
  /\ UNCHANGED <<resolverVars, validatorVars, repeatVars, dialogVars>>

\* ConvertAgain with the warning list kept from the earlier call
ConvertAgain_KeepsWarnings ==
  /\ pc = "returned"
  /\ first = NoRun
  /\ first' = [kind |-> "run", result |-> result, uuidCount |-> uuidCount]
  /\ clock' = clock + 1
  /\ nodeIdMap' = EmptyMap
  /\ blocks' = EmptyMap
  /\ edges' = <<>>
  /\ warnings' = warnings
  /\ thrown' = NoError
  /\ result' = NoResult
  /\ pc' = "nodes"
  /\ UNCHANGED <<n8nWorkflow, registry, validTypes, uuidCount>>
  /\ UNCHANGED <<resolverVars, validatorVars, dialogVars>>

\* a second call of convertN8NToSim on the same workflow, later, under the same
\* registry answers: warnings, blocks, edges and nodeIdMap are fresh locals,
\* uuidv4() goes on handing out ids it has not handed out before
ConvertAgain ==
  /\ pc = "returned"
  /\ first = NoRun
  /\ first' = [kind |-> "run", result |-> result, uuidCount |-> uuidCount]
  /\ clock' = clock + 1
  /\ nodeIdMap' = EmptyMap
  /\ blocks' = EmptyMap
  /\ edges' = <<>>
  /\ warnings' = <<>>
  /\ thrown' = NoError
  /\ result' = NoResult
  /\ pc' = "nodes"
  /\ UNCHANGED <<n8nWorkflow, registry, validTypes, uuidCount>>
  /\ UNCHANGED <<resolverVars, validatorVars, dialogVars>>

----------------------------------------------------------------------------
(* Calls of getSimBlockType and of validateN8NWorkflow *)

NotResolved == [simType |-> <<>>, defaultHeight |-> 0]
NotValidated == [kind |-> "pending", valid |-> FALSE, error |-> <<>>]

ResolveType ==
  /\ pc = "getSimBlockType"
  /\ resolved' = getSimBlockType(n8nType)
  /\ pc' = "resolved"
  /\ UNCHANGED <<n8nType, validatorVars, converterVars, repeatVars, dialogVars>>

ValidateWorkflow ==
  /\ pc = "validateN8NWorkflow"
  /\ validation' = validateN8NWorkflow(data)
  /\ pc' = "validated"
  /\ UNCHANGED <<data, resolverVars, converterVars, repeatVars, dialogVars>>

----------------------------------------------------------------------------
(* The inputs the calls are made on. *)

\* all sequences over S of length at most n
SeqsUpTo(S, n) == UNION {[1..k -> S] : k \in 0..n}

Alphabet == {"a", "B", "."}

\* free-form type strings, the same behind the namespace prefix, and the
\* source types of the table
TypeInputs ==
  SeqsUpTo(Alphabet, MaxLen)
    \cup {Base(s) : s \in SeqsUpTo(Alphabet, MaxLen)}
    \cup {BLOCK_TYPE_MAPPINGS[i].n8nType : i \in 1..Len(BLOCK_TYPE_MAPPINGS)}

Position == Arr(<<Num, Num>>)

NameValues == {Undefined, Str(""), Num, Str("A")}
TypeValues == {Str(""), Num, Str("t")}
PositionValues == {Undefined, Str("p"), Position, Arr(<<Num, Num, Num>>)}

\* elements of raw.nodes: objects, null, and a primitive
RawNodes ==
  [kind : {"object"}, name : NameValues, type : TypeValues, position : PositionValues]
    \cup {Null, Num}

ConnectionsValues == {Undefined, Null, Str("c"), [kind |-> "object"]}

\* parsed JSON handed to the validator
RawInputs ==
  {Null, Undefined, Num, Str(""), Arr(<<>>)}
    \cup [kind : {"object"}, nodes : {Undefined, Null, Str("n"), [kind |-> "object"]},
          connections : ConnectionsValues]
    \cup [kind : {"object"}, nodes : {Arr(ns) : ns \in SeqsUpTo(RawNodes, MaxRawNodes)},
          connections : ConnectionsValues]

Names == {"A", "B"}

\* 'n8n-nodes-base.if', in the table: a condition block
IfType == Base(<<"i","f">>)
\* a type with a namespace that the table does not list
MyApiType == Base(<<"m","y","A","p","i">>)
\* a type without namespace separator
CustomType == <<"c","u","s","t","o","m">>

\* the block types the node types above resolve to
BlockTypes == {ConditionType, FunctionType, <<"m","y","_","a","p","i">>}

\* answers of the Type Existence Check: every type, only 'function', none
ValidSets == {BlockTypes, {FunctionType}, {}}

\* the answers that tell a condition block from the others
GraphValidSets == {BlockTypes, {FunctionType}}

EmptyBag == [kind |-> "object"]

Entries == {[kind |-> "object", node |-> n] : n \in Names}

\* a branch with w fan-out targets; a null in place of a branch
GroupsOfWeight(w) ==
  {Arr(g) : g \in [1..w -> Entries]} \cup (IF w = 1 THEN {Null} ELSE {})

\* the `main` arrays whose branches have w targets in total
RECURSIVE MainsOfWeight(_)
MainsOfWeight(w) ==
  IF w = 0 THEN {<<>>}
  ELSE UNION {{<<g>> \o m : g \in GroupsOfWeight(v), m \in MainsOfWeight(w - v)} :
              v \in 1..w}

\* the values of one key of the connection table: { main: [...] }, no main,
\* a main that is no array, and null
ConnectionDatas(w) ==
  {[kind |-> "object", main |-> Arr(m)] : m \in MainsOfWeight(w)}
    \cup (IF w = 1
            THEN {[kind |-> "object", main |-> Undefined],
                  [kind |-> "object", main |-> Num], Null}
            ELSE {})

Source(n, d) == [sourceName |-> n, connectionData |-> d]

\* Object.entries(connections), of total weight at most w. The keys come in the
\* order "A", "B"; a table listing them in the other order is this one with the
\* node names exchanged.
ConnectionTables(w) ==
  {<<>>}
    \cup {<<Source("A", d)>> : d \in UNION {ConnectionDatas(v) : v \in 0..w}}
    \cup UNION {{<<Source("A", d1), Source("B", d2)>> :
                   d1 \in ConnectionDatas(v[1]), d2 \in ConnectionDatas(v[2])} :
                v \in {u \in (0..w) \X (0..w) : u[1] + u[2] <= w}}

\* nodes of the workflows whose graph is converted
GraphNodes ==
  [name : Names, type : {StickyNoteType, IfType, CustomType},
   position : {<<100, 200>>}, parameters : {EmptyBag}]

Workflow(nodes, connections) ==
  [kind |-> "object", name |-> Undefined, nodes |-> nodes, connections |-> connections]

\* validated workflows with any connection table, no block registered
GraphInputs ==
  [workflow : UNION {{Workflow(ns, cs) : ns \in [1..n -> GraphNodes],
                                         cs \in ConnectionTables(MaxSize - n)} :
                     n \in 1..MaxSize},
   registry : {EmptyMap},
   validTypes : GraphValidSets]

\* parameter bags of n8n nodes
ParameterBags ==
  { EmptyBag,
    [kind |-> "object", jsCode |-> Str("js")],
    [kind |-> "object", code |-> Str("c"), language |-> Str("python")],
    [kind |-> "object", text |-> StrOfLength("long text", 101),
     conditions |-> [kind |-> "object"]] }

\* a default computed on demand
Fn(v) == [kind |-> "function", throws |-> FALSE, returns |-> v]
\* a default whose computation raises
FnThrows == [kind |-> "function", throws |-> TRUE, returns |-> Undefined]

\* sub-block declarations of registry definitions; two of them share an id
SlotDeclarations ==
  { [id |-> "code", type |-> "code", value |-> Undefined],
    [id |-> "code", type |-> "long-input", value |-> Str("// default")],
    [id |-> "language", type |-> "dropdown", value |-> Fn(Str("python"))],
    [id |-> "condition", type |-> "condition-input", value |-> Undefined],
    [id |-> "message", type |-> "long-input", value |-> FnThrows] }

\* declared outputs: a bare type string and a { type, description } record
SampleOutputs ==
  [kind |-> "object",
   result |-> Str("json"),
   error |-> [kind |-> "object", type |-> "string", description |-> ""]]

BlockDefinitions ==
  [kind : {"object"},
   subBlocks : {Undefined} \cup {Arr(s) : s \in SeqsUpTo(SlotDeclarations, MaxDecls)},
   outputs : {Undefined, SampleOutputs}]

\* registries: nothing registered, or every block type with one definition,
\* or a lookup that fails
Registries ==
  {EmptyMap} \cup {[t \in BlockTypes |-> d] : d \in BlockDefinitions \cup {LookupFails}}

\* nodes of the workflows whose blocks are filled from a registry; the
\* parameter bag may be missing
BlockNodes ==
  [name : {"A"}, type : {IfType, MyApiType, CustomType},
   position : {<<100, 200>>}, parameters : ParameterBags \cup {Undefined}]

\* validated one-node workflows without connections, under any registry
BlockInputs ==
  [workflow : {Workflow(<<n>>, <<>>) : n \in BlockNodes},
   registry : Registries,
   validTypes : ValidSets]

\* 'n8n-nodes-base.cron', a known trigger type: a schedule block
CronType == Base(<<"c","r","o","n">>)
\* a type that only its suffix makes a trigger
SuffixTriggerType == <<"m","y","T","r","i","g","g","e","r">>

\* nodes of the workflows whose blocks are classified as triggers
TriggerNodes ==
  [name : {"A"}, type : {StickyNoteType, CronType, SuffixTriggerType, CustomType},
   position : {<<100, 200>>}, parameters : {EmptyBag}]

\* the answers that accept and that reject the schedule block
TriggerValidSets == {{FunctionType, <<"s","c","h","e","d","u","l","e">>}, {FunctionType}}

\* validated workflows without connections whose nodes are or are not triggers
TriggerInputs ==
  [workflow : {Workflow(ns, <<>>) : ns \in UNION {[1..n -> TriggerNodes] : n \in 1..MaxSize}},
   registry : {EmptyMap},
   validTypes : TriggerValidSets]

----------------------------------------------------------------------------
(* MigrationDialog: the texts a user types or uploads, and JSON.parse *)

\* most file reads in flight at a time
MaxReads == 1

\* most calls of onMigrationComplete
MaxDeliveries == 2

NullNodeText == "{\"nodes\":[null],\"connections\":{}}"
IfNodeText ==
  "{\"nodes\":[{\"name\":\"A\",\"type\":\"n8n-nodes-base.if\",\"position\":[100,200],\"parameters\":{}}],\"connections\":{}}"
CustomNodeText ==
  "{\"nodes\":[{\"name\":\"B\",\"type\":\"custom\",\"position\":[100,200],\"parameters\":{}}],\"connections\":{}}"
NoParametersText ==
  "{\"nodes\":[{\"name\":\"A\",\"type\":\"custom\",\"position\":[100,200]}],\"connections\":{}}"

\* what the textarea or a file can hold: nothing, blanks, no JSON, JSON that is
\* no workflow, a workflow with a null node, workflows that convert (with and
\* without warning) and one whose conversion fails
Texts ==
  {"", " ", "oops", "null", NullNodeText, IfNodeText, CustomNodeText, NoParametersText}

\* jsonInput.trim()
Trim(text) == IF text = " " THEN "" ELSE text

SyntaxError == [thrown |-> TRUE, isWorkflow |-> FALSE, value |-> Undefined]
ParsedValue(v) == [thrown |-> FALSE, isWorkflow |-> FALSE, value |-> v]
ParsedWorkflow(w) == [thrown |-> FALSE, isWorkflow |-> TRUE, value |-> w]

SoleNode(name, type, parameters) ==
  [name |-> name, type |-> type, position |-> <<100, 200>>, parameters |-> parameters]

\* JSON.parse(text)
JSONParse(text) ==
  IF text = "null" THEN ParsedValue(Null)
  ELSE IF text = NullNodeText
    THEN ParsedValue([kind |-> "object", nodes |-> Arr(<<Null>>),
                      connections |-> [kind |-> "object"]])
  ELSE IF text = IfNodeText
    THEN ParsedWorkflow(Workflow(<<SoleNode("A", IfType, EmptyBag)>>, <<>>))
  ELSE IF text = CustomNodeText
    THEN ParsedWorkflow(Workflow(<<SoleNode("B", CustomType, EmptyBag)>>, <<>>))
  ELSE IF text = NoParametersText
    THEN ParsedWorkflow(Workflow(<<SoleNode("A", CustomType, Undefined)>>, <<>>))
  ELSE SyntaxError

\* a parsed workflow as validateN8NWorkflow reads it: the name, type and
\* position of each node and the connections object
RawView(doc) ==
  IF doc.isWorkflow
    THEN [kind |-> "object",
          nodes |-> Arr([i \in 1..Len(doc.value.nodes) |->
                          [kind |-> "object",
                           name |-> Str(doc.value.nodes[i].name),
                           type |-> IF doc.value.nodes[i].type = <<>>
                                      THEN Str("") ELSE Str("t"),
                           position |-> Arr([k \in 1..Len(doc.value.nodes[i].position)
                                              |-> Num])]]),
          connections |-> [kind |-> "object"]]
    ELSE doc.value

----------------------------------------------------------------------------
(* MigrationDialog: the event handlers. A handler runs to its end before the *)
(* next event is taken (handleValidate and handleMigrate contain no await),  *)
(* and a button fires only while it is not disabled.                         *)

NoDeliveries == <<>>

\* setJsonInput(text); setValidationError(null); setValidationResult(null);
\* setIsValidated(false)
handleJsonChange(text) ==
  /\ pc = "dialog"
  /\ open
  /\ ~(isValidating \/ isMigrating)
  /\ jsonInput' = text
  /\ validationError' = Null
  /\ validationResult' = Null
  /\ isValidated' = FALSE
  /\ UNCHANGED <<open, isValidating, isMigrating, reading, delivered>>
  /\ UNCHANGED <<pc, resolverVars, validatorVars, converterVars, repeatVars>>

\* handleValidate after convertN8NToSim(parsed) returned migrationResult
AfterConversion(migrationResult, wasValidated) ==
  IF migrationResult.success
    THEN [isValidated |-> TRUE, result |-> migrationResult, error |-> Null]
    ELSE [isValidated |-> wasValidated, result |-> migrationResult,
          error |-> Or(migrationResult.error, Str("Validation failed"))]

\* handleValidate after validateN8NWorkflow(parsed) ended with outcome
AfterValidation(doc, outcome, wasValidated, reg, valid, count, now) ==
  IF outcome.kind = "throw"
    THEN [isValidated |-> wasValidated, result |-> Null,
          error |-> Str("Cannot read properties of null")]
  ELSE IF ~outcome.valid
    THEN [isValidated |-> wasValidated, result |-> Null,
          error |-> [kind |-> "string", value |-> outcome.error]]
  ELSE AfterConversion(convertN8NToSim(doc.value, reg, valid, count, now),
                       wasValidated)

\* handleValidate after JSON.parse(jsonInput) ended with doc
AfterParse(doc, wasValidated, reg, valid, count, now) ==
  IF doc.thrown
    THEN [isValidated |-> wasValidated, result |-> Null,
          error |-> Str("Unexpected token")]
  ELSE AfterValidation(doc, validateN8NWorkflow(RawView(doc)), wasValidated,
                       reg, valid, count, now)

\* the outcome of handleValidate on the text: [isValidated, result, error]
ValidateText(text, wasValidated, reg, valid, count, now) ==
  AfterParse(JSONParse(text), wasValidated, reg, valid, count, now)

handleValidate ==
  /\ pc = "dialog"
  /\ open
  /\ ~(Trim(jsonInput) = "" \/ isValidating \/ isMigrating \/ isValidated)
  /\ LET r == ValidateText(jsonInput, isValidated, registry, validTypes,
                           uuidCount, clock)
     IN /\ isValidated' = r.isValidated
        /\ validationResult' = r.result
        /\ validationError' = r.error
  /\ isValidating' = FALSE
  /\ UNCHANGED <<open, jsonInput, isMigrating, reading, delivered>>
  /\ UNCHANGED <<pc, resolverVars, validatorVars, converterVars, repeatVars>>

\* handleClose(): every piece of state back to its initial value, then
\* onOpenChange(false)
CloseDialog ==
  /\ jsonInput' = ""
  /\ validationError' = Null
  /\ validationResult' = Null
  /\ isValidating' = FALSE
  /\ isMigrating' = FALSE
  /\ isValidated' = FALSE
  /\ open' = FALSE

handleClose ==
  /\ pc = "dialog"
  /\ open
  /\ ~(isValidating \/ isMigrating)
  /\ CloseDialog
  /\ UNCHANGED <<reading, delivered>>
  /\ UNCHANGED <<pc, resolverVars, validatorVars, converterVars, repeatVars>>

\* handleMigrate: onMigrationComplete(validationResult.workflow) returns and
\* the dialog closes, or it raises and the error is shown
handleMigrate ==
  /\ pc = "dialog"
  /\ open
  /\ ~(~isValidated \/ isMigrating)
  /\ ~(~isValidated \/ validationResult.kind # "result"
        \/ ~Truthy(validationResult.workflow))
  /\ Len(delivered) < MaxDeliveries
  /\ delivered' = Append(delivered, [workflow |-> validationResult.workflow,
                                     input |-> jsonInput])
  /\ \/ /\ CloseDialog
     \/ /\ validationError' = Str("Failed to load workflow")
        /\ isMigrating' = FALSE
        /\ UNCHANGED <<open, jsonInput, isValidating, isValidated, validationResult>>
  /\ UNCHANGED reading
  /\ UNCHANGED <<pc, resolverVars, validatorVars, converterVars, repeatVars>>

\* handleFileUpload with a file chosen: reader.readAsText(file)
handleFileUpload(content) ==
  /\ pc = "dialog"
  /\ open
  /\ ~(isValidating \/ isMigrating)
  /\ Cardinality(reading) < MaxReads
  /\ content \notin reading
  /\ reading' = reading \cup {content}
  /\ UNCHANGED <<open, jsonInput, isValidating, isMigrating, isValidated,
                 validationResult, validationError, delivered>>
  /\ UNCHANGED <<pc, resolverVars, validatorVars, converterVars, repeatVars>>

\* reader.onload with the state kept as it is
ReaderOnLoad_KeepsValidation(content) ==
  /\ pc = "dialog"
  /\ content \in reading
  /\ reading' = reading \ {content}
  /\ jsonInput' = content
  /\ validationError' = Null
  /\ validationResult' = validationResult
  /\ isValidated' = isValidated
  /\ UNCHANGED <<open, isValidating, isMigrating, delivered>>
  /\ UNCHANGED <<pc, resolverVars, validatorVars, converterVars, repeatVars>>

\* reader.onload: a read completes, whenever it does
ReaderOnLoad(content) ==
  /\ pc = "dialog"
  /\ content \in reading
  /\ reading' = reading \ {content}
  /\ jsonInput' = content
  /\ validationError' = Null
  /\ validationResult' = Null
  /\ isValidated' = FALSE
  /\ UNCHANGED <<open, isValidating, isMigrating, delivered>>
  /\ UNCHANGED <<pc, resolverVars, validatorVars, converterVars, repeatVars>>

\* reader.onerror
ReaderOnError(content) ==
  /\ pc = "dialog"
  /\ content \in reading
  /\ reading' = reading \ {content}
  /\ validationError' = Str("Failed to read file")
  /\ UNCHANGED <<open, jsonInput, isValidating, isMigrating, isValidated,
                 validationResult, delivered>>
  /\ UNCHANGED <<pc, resolverVars, validatorVars, converterVars, repeatVars>>

\* <Modal open={open} onOpenChange={onOpenChange}>: the modal is dismissed
\* without handleClose
DismissModal ==
  /\ pc = "dialog"
  /\ open
  /\ open' = FALSE
  /\ UNCHANGED <<jsonInput, isValidating, isMigrating, isValidated,
                 validationResult, validationError, reading, delivered>>
  /\ UNCHANGED <<pc, resolverVars, validatorVars, converterVars, repeatVars>>

\* the parent opens the dialog again
OpenModal ==
  /\ pc = "dialog"
  /\ ~open
  /\ open' = TRUE
  /\ UNCHANGED <<jsonInput, isValidating, isMigrating, isValidated,
                 validationResult, validationError, reading, delivered>>
  /\ UNCHANGED <<pc, resolverVars, validatorVars, converterVars, repeatVars>>

----------------------------------------------------------------------------
(* Specifications *)

NoWorkflow == [kind |-> "undefined"]

ResolverIdle == n8nType = <<>> /\ resolved = NotResolved
ValidatorIdle == data = Undefined /\ validation = NotValidated
ConverterIdle ==
  /\ n8nWorkflow = NoWorkflow
  /\ registry = EmptyMap
  /\ validTypes = {}
  /\ uuidCount = 0
  /\ nodeIdMap = EmptyMap
  /\ blocks = EmptyMap
  /\ edges = <<>>
  /\ warnings = <<>>
  /\ thrown = NoError
  /\ result = NoResult
  /\ clock = 0
  /\ first = NoRun

DialogIdle ==
  /\ open = FALSE
  /\ jsonInput = ""
  /\ isValidating = FALSE
  /\ isMigrating = FALSE
  /\ isValidated = FALSE
  /\ validationResult = Null
  /\ validationError = Null
  /\ reading = {}
  /\ delivered = NoDeliveries

InitResolve ==
  /\ pc = "getSimBlockType"
  /\ n8nType \in TypeInputs
  /\ resolved = NotResolved
  /\ ValidatorIdle
  /\ ConverterIdle
  /\ DialogIdle

NextResolve == ResolveType

SpecResolve == InitResolve /\ [][NextResolve]_vars

InitValidate ==
  /\ pc = "validateN8NWorkflow"
  /\ data \in RawInputs
  /\ validation = NotValidated
  /\ ResolverIdle
  /\ ConverterIdle
  /\ DialogIdle

NextValidate == ValidateWorkflow

SpecValidate == InitValidate /\ [][NextValidate]_vars

ConverterInputs == GraphInputs \cup BlockInputs \cup TriggerInputs

Init ==
  /\ pc = "nodes"
  /\ \E input \in ConverterInputs :
       /\ n8nWorkflow = input.workflow
       /\ registry = input.registry
       /\ validTypes = input.validTypes
  /\ uuidCount = 0
  /\ nodeIdMap = EmptyMap
  /\ blocks = EmptyMap
  /\ edges = <<>>
  /\ warnings = <<>>
  /\ thrown = NoError
  /\ result = NoResult
  /\ clock = 0
  /\ first = NoRun
  /\ ResolverIdle
  /\ ValidatorIdle
  /\ DialogIdle

Next ==
  \/ ConvertNodes
  \/ ConvertConnections
  \/ BuildWorkflow
  \/ CatchError

Spec == Init /\ [][Next]_vars

\* the conversion, and the same conversion once more
NextTwice ==
  \/ ConvertNodes
  \/ ConvertConnections
  \/ BuildWorkflow
  \/ CatchError
  \/ ConvertAgain

SpecTwice == Init /\ [][NextTwice]_vars

\* the dialog, opened with its initial state, under a registry that knows no
\* block definition and a Type Existence Check that accepts 'function' only
InitDialog ==
  /\ pc = "dialog"
  /\ open = TRUE
  /\ jsonInput = ""
  /\ isValidating = FALSE
  /\ isMigrating = FALSE
  /\ isValidated = FALSE
  /\ validationResult = Null
  /\ validationError = Null
  /\ reading = {}
  /\ delivered = NoDeliveries
  /\ n8nWorkflow = NoWorkflow
  /\ registry = EmptyMap
  /\ validTypes = {FunctionType}
  /\ uuidCount = 0
  /\ nodeIdMap = EmptyMap
  /\ blocks = EmptyMap
  /\ edges = <<>>
  /\ warnings = <<>>
  /\ thrown = NoError
  /\ result = NoResult
  /\ clock = 0
  /\ first = NoRun
  /\ ResolverIdle
  /\ ValidatorIdle

NextDialog ==
  \/ \E text \in Texts : handleJsonChange(text)
  \/ handleValidate
  \/ handleMigrate
  \/ \E content \in Texts : handleFileUpload(content)
  \/ \E content \in Texts : ReaderOnLoad(content)
  \/ \E content \in Texts : ReaderOnError(content)
  \/ handleClose
  \/ DismissModal
  \/ OpenModal

SpecDialog == InitDialog /\ [][NextDialog]_vars

----------------------------------------------------------------------------
(* The source workflow, read the way §3 of the specification describes it:   *)
(* the connection entries in table order, each with its source name, its    *)
(* branch index and its target name.                                         *)

GroupEntries(name, index, group) ==
  IF IsArray(group)
    THEN [k \in 1..Len(group.items) |->
            [sourceName |-> name, outputIndex |-> index, node |-> group.items[k].node]]
    ELSE <<>>

RECURSIVE MainEntries(_, _, _)
MainEntries(name, main, g) ==
  IF g > Len(main) THEN <<>>
  ELSE GroupEntries(name, g - 1, main[g]) \o MainEntries(name, main, g + 1)

SourceEntries(entry) ==
  IF entry.connectionData.kind = "object" /\ IsArray(entry.connectionData.main)
    THEN MainEntries(entry.sourceName, entry.connectionData.main.items, 1)
    ELSE <<>>

RECURSIVE TableEntries(_, _)
TableEntries(table, c) ==
  IF c > Len(table) THEN <<>>
  ELSE SourceEntries(table[c]) \o TableEntries(table, c + 1)

\* the retained nodes: every node that is no sticky note
IsRetained(node) == node.type # StickyNoteType
RetainedNodes == SelectSeq(n8nWorkflow.nodes, IsRetained)
RetainedNames == {RetainedNodes[i].name : i \in 1..Len(RetainedNodes)}

BothResolve(e) == e.sourceName \in RetainedNames /\ e.node \in RetainedNames
OnlySourceResolves(e) == e.sourceName \in RetainedNames /\ e.node \notin RetainedNames

\* the entries that name two retained nodes, and those under a retained source
\* that name a target which is not retained
ResolvedEntries == SelectSeq(TableEntries(n8nWorkflow.connections, 1), BothResolve)
DanglingTargets == SelectSeq(TableEntries(n8nWorkflow.connections, 1), OnlySourceResolves)

IsUnresolvedSource(entry) == entry.sourceName \notin RetainedNames
UnresolvedSources == SelectSeq(n8nWorkflow.connections, IsUnresolvedSource)

IsSourceWarning(w) == w.kind = "Source node not found in node map"
IsTargetWarning(w) == w.kind = "Target node not found in node map"
IsUnavailableWarning(w) == w.kind = "Block type not available in Sim"

Succeeded == pc = "returned" /\ result.success
Failed == pc = "returned" /\ ~result.success

----------------------------------------------------------------------------
(* Claims *)

\* C1: on success every edge's source and target are keys of the result's
\* blocks, and every edge comes from a connection entry both of whose names
\* are in the name-to-id map (none is emitted for a name missing from it).
C1_EdgesJoinExistingBlocks ==
  Succeeded =>
    LET es == result.workflow.state.edges
        bs == result.workflow.state.blocks
        te == TableEntries(n8nWorkflow.connections, 1)
    IN \A i \in 1..Len(es) :
         /\ es[i].source \in DOMAIN bs
         /\ es[i].target \in DOMAIN bs
         /\ \E j \in 1..Len(te) :
              /\ te[j].sourceName \in DOMAIN nodeIdMap
              /\ te[j].node \in DOMAIN nodeIdMap
              /\ nodeIdMap[te[j].sourceName] = es[i].source
              /\ nodeIdMap[te[j].node] = es[i].target

\* a sticky note and a retained node share a name, the sticky note is
\* dropped, and the retained node is connected to itself
C1_Witness ==
  /\ Succeeded
  /\ Len(n8nWorkflow.nodes) = 2
  /\ n8nWorkflow.nodes[1].type = StickyNoteType
  /\ n8nWorkflow.nodes[2].type # StickyNoteType
  /\ n8nWorkflow.nodes[1].name = n8nWorkflow.nodes[2].name
  /\ \E i \in 1..Len(result.workflow.state.edges) :
       result.workflow.state.edges[i].source = result.workflow.state.edges[i].target

\* C2: on success there is one edge per connection entry whose source and
\* target both name retained nodes, one warning per connection-table key that
\* names no retained node (nothing under that key is processed), and one warning
\* per entry under a retained source whose target names no retained node.
C2_DanglingReferences ==
  Succeeded =>
    /\ Len(edges) = Len(ResolvedEntries)
    /\ \A i \in 1..Len(edges) :
         /\ edges[i].source = nodeIdMap[ResolvedEntries[i].sourceName]
         /\ edges[i].target = nodeIdMap[ResolvedEntries[i].node]
    /\ SelectSeq(warnings, IsSourceWarning)
         = [i \in 1..Len(UnresolvedSources) |->
              SourceWarning(UnresolvedSources[i].sourceName)]
    /\ SelectSeq(warnings, IsTargetWarning)
         = [i \in 1..Len(DanglingTargets) |-> TargetWarning(DanglingTargets[i].node)]

\* a key that names no retained node and holds an entry, next to an entry of a
\* retained source whose target is not retained
C2_Witness ==
  /\ Succeeded
  /\ Len(DanglingTargets) >= 1
  /\ \E c \in 1..Len(n8nWorkflow.connections) :
       /\ IsUnresolvedSource(n8nWorkflow.connections[c])
       /\ Len(SourceEntries(n8nWorkflow.connections[c])) >= 1

\* a dangling target and a resolved target in the same branch
C2_SiblingWitness ==
  /\ Succeeded
  /\ \E i \in 1..Len(DanglingTargets), j \in 1..Len(ResolvedEntries) :
       /\ DanglingTargets[i].sourceName = ResolvedEntries[j].sourceName
       /\ DanglingTargets[i].outputIndex = ResolvedEntries[j].outputIndex

\* C8: an edge leaving a block whose final type is 'condition' carries
\* 'condition-cond-true' from branch 0 and 'condition-cond-else' from every
\* other branch; an edge leaving any other block carries 'source'; the target
\* handle is always 'target'.
C8_BranchHandles ==
  Succeeded =>
    LET es == result.workflow.state.edges
        bs == result.workflow.state.blocks
    IN /\ Len(es) = Len(ResolvedEntries)
       /\ \A i \in 1..Len(es) :
            /\ es[i].targetHandle = "target"
            /\ es[i].sourceHandle =
                 IF bs[es[i].source].type = ConditionType
                   THEN IF ResolvedEntries[i].outputIndex = 0
                          THEN "condition-cond-true"
                          ELSE "condition-cond-else"
                   ELSE "source"

\* one condition block with edges from branch 0 and from branch 1
C8_Witness ==
  /\ Succeeded
  /\ \E i, j \in 1..Len(edges) :
       /\ edges[i].source = edges[j].source
       /\ blocks[edges[i].source].type = ConditionType
       /\ edges[i].sourceHandle = "condition-cond-true"
       /\ edges[j].sourceHandle = "condition-cond-else"

\* C9: on success the result has one block per node that is no sticky note,
\* whatever the names, the availability of types and the connections; the
\* the i-th block generated being that of the i-th retained node; the
\* name-to-id map holds exactly the names of retained nodes, each mapped to a
\* block of that name.
C9_BlockCount ==
  Succeeded =>
    /\ Cardinality(DOMAIN result.workflow.state.blocks) = Len(RetainedNodes)
    /\ DOMAIN result.workflow.state.blocks = 1..Len(RetainedNodes)
    /\ \A i \in 1..Len(RetainedNodes) :
         result.workflow.state.blocks[i].name = RetainedNodes[i].name
    /\ DOMAIN nodeIdMap = RetainedNames
    /\ \A name \in DOMAIN nodeIdMap :
         /\ nodeIdMap[name] \in DOMAIN blocks
         /\ blocks[nodeIdMap[name]].name = name

\* two retained nodes of one name, one of them of an unavailable type
C9_Witness ==
  /\ Succeeded
  /\ Len(RetainedNodes) = 2
  /\ RetainedNodes[1].name = RetainedNodes[2].name
  /\ Len(SelectSeq(warnings, IsUnavailableWarning)) >= 1

\* a sticky note is dropped
C9_StickyWitness ==
  /\ Succeeded
  /\ Len(RetainedNodes) < Len(n8nWorkflow.nodes)

\* no retained node lacks its parameter bag
NodesHaveParameters ==
  \A i \in 1..Len(RetainedNodes) : RetainedNodes[i].parameters # Undefined

\* the registry answers every lookup and none of its declared defaults raises
NoFaultyCollaborator ==
  \A t \in DOMAIN registry :
    /\ registry[t] # LookupFails
    /\ IsArray(registry[t].subBlocks) =>
         \A k \in 1..Len(registry[t].subBlocks.items) :
           LET v == registry[t].subBlocks.items[k].value
           IN v.kind = "function" => ~v.throws

\* the value of a connection-table key is an object whose main, when present,
\* is an array of arrays
IsWellFormedSource(entry) ==
  /\ entry.connectionData.kind = "object"
  /\ \/ ~Truthy(entry.connectionData.main)
     \/ /\ IsArray(entry.connectionData.main)
        /\ \A g \in 1..Len(entry.connectionData.main.items) :
             IsArray(entry.connectionData.main.items[g])

WellFormedTable ==
  \A c \in 1..Len(n8nWorkflow.connections) :
    IsWellFormedSource(n8nWorkflow.connections[c])

\* the workflow has a single node, of a type that is not in the table and has
\* no '.', and an empty connection table
SoleBareNode ==
  /\ Len(n8nWorkflow.nodes) = 1
  /\ FindMapping(n8nWorkflow.nodes[1].type) = 0
  /\ ~HasDot(n8nWorkflow.nodes[1].type)
  /\ n8nWorkflow.connections = <<>>

\* a block of type 'function' and height 143, and nothing else
OneFunctionBlock ==
  /\ result.success
  /\ DOMAIN result.workflow.state.blocks = {1}
  /\ result.workflow.state.blocks[1].type = FunctionType
  /\ result.workflow.state.blocks[1].height = 143

\* C3 as claimed: the sole bare node converts to one 'function' block of height
\* 143 with exactly one warning.
C3_AlwaysOneWarning ==
  (pc = "returned" /\ SoleBareNode /\ NodesHaveParameters /\ NoFaultyCollaborator) =>
    /\ OneFunctionBlock
    /\ result.warnings # Undefined
    /\ Len(result.warnings.items) = 1

\* C3 as amended: the sole bare node, carrying a parameter bag and with no
\* collaborator raising, converts to one 'function' block of height 143, with
\* no warning when the Type Existence Check accepts 'function' and with exactly
\* one warning when it rejects it.
C3_WarningOnlyWhenRejected ==
  (pc = "returned" /\ SoleBareNode /\ NodesHaveParameters /\ NoFaultyCollaborator) =>
    /\ OneFunctionBlock
    /\ isValidBlockType(validTypes, FunctionType) => result.warnings = Undefined
    /\ ~isValidBlockType(validTypes, FunctionType) =>
         /\ result.warnings # Undefined
         /\ Len(result.warnings.items) = 1

\* the sole bare node converted while 'function' is available
C3_Witness ==
  /\ pc = "returned"
  /\ SoleBareNode
  /\ OneFunctionBlock
  /\ isValidBlockType(validTypes, FunctionType)
  /\ result.warnings = Undefined

\* the declarations of the registry definition of a block's type; <<>> when the
\* type has no definition with declarations
Declarations(block) ==
  LET blockDef == getBlock(registry, block.type) IN
  IF blockDef.kind = "object" /\ IsArray(blockDef.subBlocks)
    THEN blockDef.subBlocks.items ELSE <<>>

HasDeclarations(block) ==
  LET blockDef == getBlock(registry, block.type) IN
  blockDef.kind = "object" /\ IsArray(blockDef.subBlocks)

DeclaredIds(block) == {Declarations(block)[k].id : k \in 1..Len(Declarations(block))}

\* the last declaration of slot id
LastDeclaration(block, id) ==
  LET ds == Declarations(block)
      k == CHOOSE i \in 1..Len(ds) :
             ds[i].id = id /\ \A j \in (i + 1)..Len(ds) : ds[j].id # id
  IN ds[k]

\* C4 as claimed: a block whose type has a definition with N declarations has
\* exactly N sub-blocks.
C4_ExactlyNSubBlocks ==
  \A b \in DOMAIN blocks :
    HasDeclarations(blocks[b]) =>
      Cardinality(DOMAIN blocks[b].subBlocks) = Len(Declarations(blocks[b]))

\* C4 as amended: a block whose type has a definition with declarations has
\* exactly one sub-block per distinct declared slot id (N of them when the N
\* declarations have distinct ids), each carrying its id, the type of the last
\* declaration of that id and a defined, possibly null, value.
C4_OneSubBlockPerSlotId ==
  \A b \in DOMAIN blocks :
    HasDeclarations(blocks[b]) =>
      /\ DOMAIN blocks[b].subBlocks = DeclaredIds(blocks[b])
      /\ \A id \in DeclaredIds(blocks[b]) :
           /\ blocks[b].subBlocks[id].id = id
           /\ blocks[b].subBlocks[id].type = LastDeclaration(blocks[b], id).type
           /\ blocks[b].subBlocks[id].value # Undefined

\* a block with two declared slots: one left null, one filled by a computed
\* default
C4_Witness ==
  \E b \in DOMAIN blocks :
    /\ Len(Declarations(blocks[b])) = 2
    /\ DOMAIN blocks[b].subBlocks = {"code", "language"}
    /\ blocks[b].subBlocks["code"].value = Null
    /\ blocks[b].subBlocks["language"].value = Str("python")

\* C7: a retained node whose resolved type the Type Existence Check rejects
\* becomes a 'function' block of height 143 and produces exactly one warning
\* naming the node and the rejected type; an accepted one keeps its resolved
\* type and height and produces no warning; a conversion of a well-formed
\* input succeeds whatever is rejected.
C7_UnavailableTypes ==
  /\ (pc \in {"connections", "build"} \/ Succeeded) =>
       LET Rejected(node) ==
             ~isValidBlockType(validTypes, getSimBlockType(node.type).simType)
           rejected == SelectSeq(RetainedNodes, Rejected)
       IN /\ \A i \in 1..Len(RetainedNodes) :
               LET r == getSimBlockType(RetainedNodes[i].type) IN
               IF Rejected(RetainedNodes[i])
                 THEN blocks[i].type = FunctionType /\ blocks[i].height = 143
                 ELSE blocks[i].type = r.simType /\ blocks[i].height = r.defaultHeight
          /\ SelectSeq(warnings, IsUnavailableWarning)
               = [j \in 1..Len(rejected) |->
                    Warning("Block type not available in Sim", rejected[j].name,
                            getSimBlockType(rejected[j].type).simType,
                            rejected[j].type)]
          /\ pc = "connections" => Len(warnings) = Len(rejected)
  /\ (pc = "returned" /\ NodesHaveParameters /\ NoFaultyCollaborator /\ WellFormedTable)
       => result.success

\* a rejected node next to an accepted one
C7_Witness ==
  /\ Succeeded
  /\ Len(RetainedNodes) = 2
  /\ ~isValidBlockType(validTypes, getSimBlockType(RetainedNodes[1].type).simType)
  /\ isValidBlockType(validTypes, getSimBlockType(RetainedNodes[2].type).simType)
  /\ getSimBlockType(RetainedNodes[1].type).defaultHeight # 143

\* a connection-table key of a retained node whose value breaks the loops
IsFaultySource(entry) ==
  entry.sourceName \in RetainedNames /\ ~IsWellFormedSource(entry)

\* C10: a raised fault always reaches the catch clause, which returns; what
\* the call returns is either
\* { success: true, workflow } without error, with warnings exactly when one
\* was produced, or { success: false, error } without workflow and warnings;
\* a fault raised in any phase gives the second, and only a fault does.
C10_ResultShapes ==
  /\ pc \in {"nodes", "connections", "build", "catch", "returned"}
  /\ pc = "catch" <=> (thrown # NoError /\ result = NoResult)
  /\ pc = "catch" => ENABLED CatchError
  /\ pc = "returned" =>
       /\ result.kind = "result"
       /\ IF result.success
            THEN /\ thrown = NoError
                 /\ result.workflow # Undefined
                 /\ result.error = Undefined
                 /\ result.warnings = IF warnings = <<>> THEN Undefined ELSE Arr(warnings)
            ELSE /\ thrown # NoError
                 /\ result.workflow = Undefined
                 /\ result.warnings = Undefined
                 /\ result.error.kind = "string"
       /\ (~NodesHaveParameters /\ registry = EmptyMap) => ~result.success
       /\ (Len(RetainedNodes) > 0 /\ \E t \in DOMAIN registry : registry[t] = LookupFails)
            => ~result.success
       /\ (\E c \in 1..Len(n8nWorkflow.connections) :
             IsFaultySource(n8nWorkflow.connections[c])) => ~result.success

\* a failure after a warning had been produced
C10_Witness ==
  /\ Failed
  /\ Len(warnings) > 0
  /\ \E c \in 1..Len(n8nWorkflow.connections) : IsFaultySource(n8nWorkflow.connections[c])

\* camel-case to snake-case as C5 words it: an underscore before each capital
\* that is not the first character, everything lowercased
RECURSIVE InternalCapitalsOnly(_, _)
InternalCapitalsOnly(s, i) ==
  IF i > Len(s) THEN <<>>
  ELSE (IF i > 1 /\ IsUpper(s[i]) THEN <<"_", ToLowerChar(s[i])>>
                                  ELSE <<ToLowerChar(s[i])>>)
         \o InternalCapitalsOnly(s, i + 1)

TableIndices(t) ==
  {i \in 1..Len(BLOCK_TYPE_MAPPINGS) : BLOCK_TYPE_MAPPINGS[i].n8nType = t}

\* the first table entry of a listed source type
FirstEntry(t) ==
  BLOCK_TYPE_MAPPINGS[CHOOSE i \in TableIndices(t) : \A j \in TableIndices(t) : i <= j]

\* C5: getSimBlockType returns the type and height of the first table entry
\* of a listed source type; for an unlisted type with a '.', the last
\* '.'-segment with an underscore before each internal capital only, lowercased,
\* and height 230; for an unlisted type without '.', 'function' and 143.
C5_ResolutionOrder ==
  pc = "resolved" =>
    resolved =
      IF TableIndices(n8nType) # {}
        THEN [simType |-> FirstEntry(n8nType).simType,
              defaultHeight |-> FirstEntry(n8nType).defaultHeight]
      ELSE IF HasDot(n8nType)
        THEN [simType |-> InternalCapitalsOnly(LastPart(n8nType), 1),
              defaultHeight |-> 230]
      ELSE [simType |-> FunctionType, defaultHeight |-> 143]

\* C5 without its word "only": the three steps in order, whatever becomes of a
\* leading capital
C5_ResolutionSteps ==
  pc = "resolved" =>
    /\ TableIndices(n8nType) # {} =>
         resolved = [simType |-> FirstEntry(n8nType).simType,
                     defaultHeight |-> FirstEntry(n8nType).defaultHeight]
    /\ (TableIndices(n8nType) = {} /\ HasDot(n8nType)) =>
         /\ resolved.defaultHeight = 230
         /\ (LastPart(n8nType) = <<>> \/ ~IsUpper(LastPart(n8nType)[1])) =>
              resolved.simType = InternalCapitalsOnly(LastPart(n8nType), 1)
    /\ (TableIndices(n8nType) = {} /\ ~HasDot(n8nType)) =>
         resolved = [simType |-> FunctionType, defaultHeight |-> 143]

\* what C6 asks of one element of raw.nodes: <<>> when it passes, else the
\* message of its first failing check
ElementFailure(node) ==
  LET field(f) == IF node.kind = "object" THEN node[f] ELSE Undefined
      IsNonEmptyString(v) == v.kind = "string" /\ v.value # ""
  IN
  IF ~IsNonEmptyString(field("name"))
    THEN <<"Invalid node: missing or invalid \"name\" field">>
  ELSE IF ~IsNonEmptyString(field("type"))
    THEN <<"Invalid node \"", field("name").value,
           "\": missing or invalid \"type\" field">>
  ELSE IF ~(field("position").kind = "array" /\ Len(field("position").items) = 2)
    THEN <<"Invalid node \"", field("name").value,
           "\": missing or invalid \"position\" field">>
  ELSE <<>>

\* what C6 asks of validateN8NWorkflow(raw)
ValidatorContract(raw) ==
  LET field(f) == IF raw.kind = "object" THEN raw[f] ELSE Undefined IN
  IF raw.kind \notin {"object", "array"}
    THEN Invalid(<<"Invalid workflow data: must be an object">>)
  ELSE IF field("nodes").kind # "array"
    THEN Invalid(<<"Invalid workflow: missing or invalid \"nodes\" array">>)
  ELSE IF field("nodes").items = <<>>
    THEN Invalid(<<"Invalid workflow: must contain at least one node">>)
  ELSE IF field("connections").kind \notin {"object", "array"}
    THEN Invalid(<<"Invalid workflow: missing or invalid \"connections\" object">>)
  ELSE LET nodes == field("nodes").items
           failing == {i \in 1..Len(nodes) : ElementFailure(nodes[i]) # <<>>}
       IN IF failing = {} THEN Valid
          ELSE Invalid(ElementFailure(
                 nodes[CHOOSE i \in failing : \A j \in failing : i <= j]))

\* C6: validateN8NWorkflow never raises; it returns valid exactly for a
\* non-null object with a non-empty nodes array, a connections object and
\* elements that each have a non-empty string name, a non-empty string type and
\* a 2-element array position, and otherwise the message of the first failing
\* check, also for an element that is null or no object.
C6_ValidatorContract ==
  pc = "validated" => validation = ValidatorContract(data)

\* C6 on the inputs whose nodes array holds no null: there the validator
\* returns what the claim says
C6_ContractWithoutNullElements ==
  (/\ pc = "validated"
   /\ (data.kind = "object" /\ data.nodes.kind = "array") =>
        \A i \in 1..Len(data.nodes.items) : data.nodes.items[i] # Null)
    => validation = ValidatorContract(data)

----------------------------------------------------------------------------
(* C11 *)

\* the id the second call generates where the first call generated id
Shift(id) == id + first.uuidCount

\* the blocks of the second call are those of the first, each under its new id
SameBlocks(b1, b2) ==
  /\ DOMAIN b2 = {Shift(id) : id \in DOMAIN b1}
  /\ \A id \in DOMAIN b1 : b2[Shift(id)] = [b1[id] EXCEPT !.id = Shift(id)]

\* the edges of the second call are those of the first, in the same order,
\* joining the corresponding blocks
SameEdges(e1, e2) ==
  /\ Len(e2) = Len(e1)
  /\ \A k \in 1..Len(e1) :
       e2[k] = [e1[k] EXCEPT !.id = Shift(@), !.source = Shift(@),
                             !.target = Shift(@)]

BothReturned == pc = "returned" /\ first # NoRun

----------------------------------------------------------------------------
(* C12 *)

\* the first value of vs that is defined; null when none is
RECURSIVE FirstDefined(_, _)
FirstDefined(vs, i) ==
  IF i > Len(vs) THEN Null
  ELSE IF vs[i] # Undefined THEN vs[i]
  ELSE FirstDefined(vs, i + 1)

\* the first of the named parameters that holds something; undefined when
\* none does
RECURSIVE FirstParameter(_, _, _)
FirstParameter(parameters, keys, i) ==
  IF i > Len(keys) THEN Undefined
  ELSE IF Truthy(Read(parameters, keys[i])) THEN Read(parameters, keys[i])
  ELSE FirstParameter(parameters, keys, i + 1)

\* the value §4.2 of the specification gives a declared slot: the first of
\* the eight strategies that yields a defined value
ClaimedSlotValue(subBlockDef, parameters, simType) ==
  LET id == subBlockDef.id
      direct == Read(parameters, id)
      codeNames ==
        IF id = "code"
          THEN FirstParameter(parameters, <<"jsCode", "functionCode", "code", "script">>, 1)
          ELSE Undefined
      messageNames ==
        IF id = "message" THEN FirstParameter(parameters, <<"text", "body">>, 1)
        ELSE Undefined
      sendTo ==
        IF id = "to" THEN FirstParameter(parameters, <<"sendTo">>, 1) ELSE Undefined
      language ==
        IF id = "language" /\ simType = FunctionType THEN Str("javascript")
        ELSE Undefined
      conditions ==
        IF id = "condition" /\ Truthy(Read(parameters, "conditions"))
          THEN Stringify(Read(parameters, "conditions"))
          ELSE Undefined
      declared ==
        IF subBlockDef.value.kind = "function" THEN subBlockDef.value.returns
        ELSE subBlockDef.value
  IN FirstDefined(<<direct, codeNames, messageNames, sendTo, language, conditions,
                    declared, Null>>, 1)

\* strategies 1 and 2 yield nothing for a 'code' slot
IsUnfilledCodeSlot(subBlockDef, parameters) ==
  /\ subBlockDef.id = "code"
  /\ Read(parameters, "code") = Undefined
  /\ FirstParameter(parameters, <<"jsCode", "functionCode", "code", "script">>, 1)
       = Undefined

\* C12: every declared slot of a block of a registered type holds the value of
\* the first of the strategies (1) parameter named like the slot, (2) for
\* 'code' jsCode, functionCode, code, script, (3) for 'message' text, body,
\* (4) for 'to' sendTo, (5) for 'language' on 'function' 'javascript', (6) for
\* 'condition' the serialized conditions, (7) the declared default, (8) null,
\* that yields a defined value; a 'code' slot without code parameter receives
\* its declared default.
C12_StrategyOrder ==
  \A b \in DOMAIN blocks :
    HasDeclarations(blocks[b]) =>
      \A id \in DeclaredIds(blocks[b]) :
        blocks[b].subBlocks[id].value
          = ClaimedSlotValue(LastDeclaration(blocks[b], id),
                             RetainedNodes[b].parameters, blocks[b].type)

\* what the code does: the claimed order for every slot, but a 'code' slot for
\* which strategies 1 and 2 yield nothing is null whatever default its
\* definition declares
C12_OrderWithoutCodeDefault ==
  \A b \in DOMAIN blocks :
    HasDeclarations(blocks[b]) =>
      \A id \in DeclaredIds(blocks[b]) :
        LET subBlockDef == LastDeclaration(blocks[b], id)
            parameters == RetainedNodes[b].parameters
        IN blocks[b].subBlocks[id].value
             = IF IsUnfilledCodeSlot(subBlockDef, parameters) THEN Null
               ELSE ClaimedSlotValue(subBlockDef, parameters, blocks[b].type)

----------------------------------------------------------------------------
(* C13 *)

IsRetainedIndex(i) == IsRetained(n8nWorkflow.nodes[i])

\* the (1-based) positions in the source node list of the nodes that become
\* blocks, in order
RetainedIndices ==
  SelectSeq([i \in 1..Len(n8nWorkflow.nodes) |-> i], IsRetainedIndex)

HasTriggerType(node) ==
  \/ node.type \in triggerTypes
  \/ EndsWith(node.type, <<"T","r","i","g","g","e","r">>)

\* C13: a block's triggerMode is true exactly when the type of its source node
\* is in the trigger-type set, or ends with 'Trigger', or the node is the
\* first of the source node list, sticky notes counted; when the first listed
\* node is a sticky note, only the type makes a block a trigger; the type
\* tested is the source type, whatever block type it resolved to.
C13_TriggerMode ==
  /\ \A b \in DOMAIN blocks :
       LET i == RetainedIndices[b]
           node == n8nWorkflow.nodes[i]
       IN blocks[b].triggerMode <=> (HasTriggerType(node) \/ i = 1)
  /\ n8nWorkflow.nodes[1].type = StickyNoteType =>
       \A b \in DOMAIN blocks :
         blocks[b].triggerMode <=> HasTriggerType(RetainedNodes[b])

\* after a sticky note, the first block is no trigger and a later block of a
\* 'Trigger' type, converted to a function block, is one
C13_Witness ==
  /\ Succeeded
  /\ n8nWorkflow.nodes[1].type = StickyNoteType
  /\ DOMAIN blocks = {1, 2}
  /\ ~blocks[1].triggerMode
  /\ blocks[2].triggerMode
  /\ blocks[2].type = FunctionType
  /\ ~HasTriggerType([type |-> blocks[2].type])

----------------------------------------------------------------------------
(* C14 *)

\* the parsed text passes validateN8NWorkflow
Validates(doc) == ~doc.thrown /\ validateN8NWorkflow(RawView(doc)) = Valid

\* the conversion of a parsed text
ConversionOf(doc) ==
  convertN8NToSim(doc.value, registry, validTypes, uuidCount, clock)

\* res is what validating and converting the text yields: the text parses,
\* passes validateN8NWorkflow and converts to res
IsConversionOf(res, text) ==
  /\ Validates(JSONParse(text))
  /\ res = ConversionOf(JSONParse(text))

\* workflow is what validating and converting the text yields, successfully
IsSuccessfulConversionOf(workflow, text) ==
  /\ Validates(JSONParse(text))
  /\ ConversionOf(JSONParse(text)).success
  /\ ConversionOf(JSONParse(text)).workflow = workflow

\* the three steps of the conversion return what the call as a whole returns
StepsAreTheCall ==
  (pc = "returned" /\ first = NoRun /\ result # NoResult) =>
    result = convertN8NToSim(n8nWorkflow, registry, validTypes, 0, clock)

\* C14: in the migration dialog, whatever the order of text edits, completed
\* file reads, Validate, Migrate and Close: isValidated is true only while
\* validationResult is the successful conversion of the text now in the input;
\* a validationResult that is kept is the conversion of the text now in the
\* input; and every call of onMigrationComplete was made with the workflow of
\* the successful conversion of the text that was in the input at the call.
C14_ValidatedMeansCurrent ==
  /\ isValidated =>
       /\ validationResult.kind = "result"
       /\ validationResult.success
       /\ IsConversionOf(validationResult, jsonInput)
  /\ validationResult.kind = "result" => IsConversionOf(validationResult, jsonInput)
  /\ \A k \in 1..Len(delivered) :
       IsSuccessfulConversionOf(delivered[k].workflow, delivered[k].input)

\* two different workflows were handed over, each converted from the text
\* that was in the input, and the dialog has closed
C14_Witness ==
  /\ Len(delivered) = 2
  /\ delivered[1].input # delivered[2].input
  /\ delivered[1].workflow # delivered[2].workflow
  /\ ~open
  /\ ~isValidated

====
